---- MODULE Spec2Model ----
(***************************************************************************)
(* Model of src/src/playlists/playlist.py: PlaylistElement, Playlist and   *)
(* PlaylistPlayer, together with the playlist directory on disk.           *)
(*                                                                         *)
(* Strings are sequences of one-character strings, so that startswith,     *)
(* endswith, glob matching, path joining and sorting are computed as the   *)
(* code computes them.  The disk holds one playlist directory, /w/p, seen  *)
(* from the working directory /w; it can be named by the relative path "p" *)
(* or by the absolute path "/w/p".  /w/f is a regular file, so no directory *)
(* can be made at "/w/f/p".                                                *)
(***************************************************************************)
EXTENDS Integers, Sequences, FiniteSets, TLC

VARIABLES
    playlist_path,  \* Playlist.playlist_path: [bound, str]
    data,           \* Playlist.data: sequence of elements
    idx,            \* PlaylistPlayer.idx
    fs,             \* the disk: [dir, files, manifest]
    ret,            \* outcome of the last call, as its caller sees it
    edits,          \* changes made to the directory from outside since load() last returned
    trip,           \* 1: load() has just scanned the directory; 2: save() has followed it
    cl              \* a call of classifica on its own: [pre, mid, suf, path, tipo, done]

vars == <<playlist_path, data, idx, fs, ret, edits, trip, cl>>

----------------------------------------------------------------------------
(* Bounds *)

\* longest manifest the environment writes
MaxManifest == 3
\* changes made to the directory from outside between two loads that return
MaxEdits == 1

----------------------------------------------------------------------------
(* Strings *)

s_http == <<"h","t","t","p">>
s_png == <<"p","n","g">>
s_jpg == <<"j","p","g">>
s_jpeg == <<"j","p","e","g">>
s_mp4 == <<"m","p","4">>
s_playlist_yaml == <<"p","l","a","y","l","i","s","t",".","y","a","m","l">>
s_empty_playlist_png ==
    <<"e","m","p","t","y","_","p","l","a","y","l","i","s","t",".","p","n","g">>

\* the strings of the modelled world
s_a_png == <<"a",".","p","n","g">>
s_b_jpg == <<"b",".","j","p","g">>
s_c_jpgm == <<"c",".","j","p","g","m">>
s_stream == <<"h","t","t","p",":","/","/","s">>
s_cwd == <<"/","w">>
s_dir_abs == <<"/","w","/","p">>
s_dir_rel == <<"p">>
\* /w/f is a regular file
s_dir_blocked == <<"/","w","/","f","/","p">>

\* ord() of the characters that occur
CharCode(c) ==
    CASE c = "." -> 46 [] c = "/" -> 47 [] c = "4" -> 52 [] c = ":" -> 58
      [] c = "_" -> 95 [] c = "a" -> 97 [] c = "b" -> 98 [] c = "c" -> 99
      [] c = "e" -> 101 [] c = "g" -> 103 [] c = "h" -> 104 [] c = "i" -> 105
      [] c = "j" -> 106 [] c = "l" -> 108 [] c = "m" -> 109 [] c = "n" -> 110
      [] c = "p" -> 112 [] c = "s" -> 115 [] c = "t" -> 116 [] c = "w" -> 119
      [] c = "y" -> 121

\* str.startswith
StartsWith(s, p) == Len(s) >= Len(p) /\ SubSeq(s, 1, Len(p)) = p

\* str.endswith
EndsWith(s, p) == Len(s) >= Len(p) /\ SubSeq(s, Len(s) - Len(p) + 1, Len(s)) = p

\* s < t for Python strings: by code point, a proper prefix first
RECURSIVE StrLess(_, _)
StrLess(s, t) ==
    IF t = <<>> THEN FALSE
    ELSE IF s = <<>> THEN TRUE
    ELSE IF Head(s) = Head(t) THEN StrLess(Tail(s), Tail(t))
    ELSE CharCode(Head(s)) < CharCode(Head(t))

\* sorted() of a set of distinct strings
RECURSIVE Sorted(_)
Sorted(S) ==
    IF S = {} THEN <<>>
    ELSE LET m == CHOOSE x \in S : \A y \in S \ {x} : StrLess(x, y)
         IN <<m>> \o Sorted(S \ {m})

----------------------------------------------------------------------------
(* Paths (pathlib) as posix strings *)

\* index of the last "/" of s, 0 when there is none
RECURSIVE LastSlash(_)
LastSlash(s) ==
    IF s = <<>> THEN 0
    ELSE IF s[Len(s)] = "/" THEN Len(s)
    ELSE LastSlash(SubSeq(s, 1, Len(s) - 1))

\* Path.name
PathName(s) == SubSeq(s, LastSlash(s) + 1, Len(s))

\* Path.__truediv__: an absolute right operand replaces the left one
PathJoin(d, s) == IF StartsWith(s, <<"/">>) THEN s ELSE d \o <<"/">> \o s

\* Path.resolve() of a path without "." or ".." components or symlinks
Resolve(s) == IF StartsWith(s, <<"/">>) THEN s ELSE s_cwd \o <<"/">> \o s

----------------------------------------------------------------------------
(* PlaylistElement *)

\* durata: None, a number read from the manifest, or the str() of one
NoDurata == [t |-> "none", v |-> 0]
NumDurata(n) == [t |-> "num", v |-> n]

\* str(durata)
StrOf(d) == [t |-> "str", v |-> d.v]

\* classifica that looks at the end of the path before it looks at its beginning
classifica_SuffixFirst(path) ==
    IF EndsWith(path, s_png) \/ EndsWith(path, s_jpg) \/ EndsWith(path, s_jpeg)
        THEN "IMMAGINE"
    ELSE IF EndsWith(path, s_mp4) THEN "VIDEO"
    ELSE IF StartsWith(path, s_http) THEN "STREAM"
    ELSE "None"

\* PlaylistElement.classifica; "None" stands for None
classifica(path) ==
    IF StartsWith(path, s_http) THEN "STREAM"
    ELSE IF EndsWith(path, s_png) \/ EndsWith(path, s_jpg) \/ EndsWith(path, s_jpeg)
        THEN "IMMAGINE"
    ELSE IF EndsWith(path, s_mp4) THEN "VIDEO"
    ELSE "None"

\* PlaylistElement.__init__ with relative_to_dir given; isPath: self.path is a Path
PlaylistElement(path, relative_to_dir, durata) ==
    LET tipo == classifica(path)
    IN [tipo |-> tipo,
        isPath |-> tipo # "STREAM",
        path |-> IF tipo # "STREAM" THEN Resolve(PathJoin(relative_to_dir, path))
                 ELSE path,
        durata |-> durata]

\* PlaylistElement.source
source(e) == e.path

\* the names in the playlist directory
DirEntries(f) ==
    IF ~f.dir THEN {}
    ELSE f.files \cup (IF f.manifest.kind = "absent" THEN {} ELSE {s_playlist_yaml})

\* Path.is_file of an absolute path
IsFile(p, f) == \E n \in DirEntries(f) : p = s_dir_abs \o <<"/">> \o n

\* Path.is_dir
IsDir(p, f) == f.dir /\ Resolve(p) = s_dir_abs

\* is_valid without the look at the disk
is_valid_NoFileCheck(e, f) == e.tipo # "None"

\* PlaylistElement.is_valid
is_valid(e, f) ==
    IF e.tipo = "None" THEN FALSE
    ELSE IF e.tipo = "STREAM" THEN TRUE
    ELSE IsFile(source(e), f)

\* PlaylistElement.serialize: a str has no attribute name
serialize(e) ==
    IF ~e.isPath THEN [exc |-> "AttributeError", name |-> <<>>, durata |-> NoDurata]
    ELSE IF e.durata.t # "none"
        THEN [exc |-> "none", name |-> PathName(e.path), durata |-> StrOf(e.durata)]
    ELSE [exc |-> "none", name |-> PathName(e.path), durata |-> NoDurata]

\* PlaylistElement.__cmp__
ElementEq(e1, e2) == e1.path = e2.path /\ e1.durata = e2.durata

----------------------------------------------------------------------------
(* The manifest playlist.yaml, as the document yaml.load makes of it:       *)
(* absent, an empty file (None), or a list whose items are a string         *)
(* (durata none) or a mapping with name and durata. A value of a mapping    *)
(* that carries an unknown tag is None, so a durata with one is durata none.*)
(* The other documents: one the parser rejects, a number, a mapping (its    *)
(* keys are the items), and lists with an item to which bad gives the kind: *)
(* a mapping without name, a number, a node with an unknown tag (None).     *)

NoManifest == [kind |-> "absent", items |-> <<>>]
EmptyManifest == [kind |-> "empty", items |-> <<>>]
ListManifest(items) == [kind |-> "list", items |-> items]
SyntaxManifest == [kind |-> "syntax", items |-> <<>>]
ScalarManifest == [kind |-> "scalar", items |-> <<>>]
MappingManifest(keys) == [kind |-> "mapping", items |-> keys]
BadItem(b) == [bad |-> b]
IsBad(item) == "bad" \in DOMAIN item

\* what the body of the loop of load_playlist raises on an item that is no string
\* and no mapping with a name
ItemRaises(item) == IF item.bad = "noname" THEN "KeyError" ELSE "AttributeError"

\* default_playlist/playlist.yaml, copied into a directory load() creates
DefaultManifest == ListManifest(<<[name |-> s_empty_playlist_png, durata |-> NoDurata]>>)

\* pathlib's match of one name against "*.[jpeg][jpg][png][mp4]"
GlobMatch(n) ==
    /\ Len(n) >= 5
    /\ n[Len(n) - 4] = "."
    /\ n[Len(n) - 3] \in {"j", "p", "e", "g"}
    /\ n[Len(n) - 2] \in {"j", "p", "g"}
    /\ n[Len(n) - 1] \in {"p", "n", "g"}
    /\ n[Len(n)] \in {"m", "p", "4"}

\* the loop of load_playlist: one element per item, the valid ones kept in order
RECURSIVE FilterValid(_, _, _)
FilterValid(items, pp, f) ==
    IF items = <<>> THEN <<>>
    ELSE LET new_item == PlaylistElement(Head(items).name, pp, Head(items).durata)
         IN (IF is_valid(new_item, f) THEN <<new_item>> ELSE <<>>)
                \o FilterValid(Tail(items), pp, f)

\* the directory scan of populate_playlist
ScanDir(pp, f) ==
    LET filelist == Sorted({PathJoin(pp.str, n) : n \in {m \in DirEntries(f) : GlobMatch(m)}})
    IN [i \in 1..Len(filelist) |-> PlaylistElement(filelist[i], pp.str, NoDurata)]

\* load_playlist that scans the directory when the parser rejects the manifest
load_playlist_ScanFallback(pp, d, f) ==
    LET bad == {i \in 1..Len(f.manifest.items) : IsBad(f.manifest.items[i])}
    IN IF f.manifest.kind = "syntax"
            THEN [exc |-> "none", data |-> ScanDir(pp, f), fs |-> f]
       ELSE IF f.manifest.kind \in {"empty", "scalar"}
            THEN [exc |-> "TypeError", data |-> d, fs |-> f]
       ELSE IF bad # {}
            THEN [exc |-> ItemRaises(f.manifest.items[CHOOSE i \in bad : \A j \in bad : i <= j]),
                  data |-> d, fs |-> f]
       ELSE [exc |-> "none", data |-> FilterValid(f.manifest.items, pp.str, f), fs |-> f]

\* Playlist.load_playlist: only yaml.YAMLError is caught, and then data is empty;
\* iterating over None or a number raises TypeError, the first item that is no
\* string and no mapping with a name raises too, all before data is set
load_playlist(pp, d, f) ==
    LET bad == {i \in 1..Len(f.manifest.items) : IsBad(f.manifest.items[i])}
    IN IF f.manifest.kind = "syntax"
            THEN [exc |-> "none", data |-> <<>>, fs |-> f]
       ELSE IF f.manifest.kind \in {"empty", "scalar"}
            THEN [exc |-> "TypeError", data |-> d, fs |-> f]
       ELSE IF bad # {}
            THEN [exc |-> ItemRaises(f.manifest.items[CHOOSE i \in bad : \A j \in bad : i <= j]),
                  data |-> d, fs |-> f]
       ELSE [exc |-> "none", data |-> FilterValid(f.manifest.items, pp.str, f), fs |-> f]

\* Path.mkdir(parents=True, exist_ok=True) of a path that is no directory: the
\* exception it raises, "none" when the directory is made
Mkdir(p) ==
    IF Resolve(p) = s_dir_abs THEN "none"
    ELSE "NotADirectoryError"

\* what the body of Playlist.save raises: None / "playlist.yaml", open() of a file
\* in a directory that is not there, serialize() of an element
SaveRaises(pp, d, f) ==
    IF ~pp.bound THEN "TypeError"
    ELSE IF ~IsDir(pp.str, f)
        THEN (IF Mkdir(pp.str) = "none" THEN "FileNotFoundError" ELSE Mkdir(pp.str))
    ELSE IF \E i \in 1..Len(d) : serialize(d[i]).exc # "none" THEN "AttributeError"
    ELSE "none"

\* Playlist.save under logger.catch: open(..., "w") truncates, then the items are
\* serialized and dumped; an exception is logged and swallowed
save(pp, d, f) ==
    IF ~pp.bound THEN f
    ELSE IF ~IsDir(pp.str, f) THEN f
    ELSE IF \E i \in 1..Len(d) : serialize(d[i]).exc # "none"
        THEN [f EXCEPT !.manifest = EmptyManifest]
    ELSE [f EXCEPT !.manifest =
            ListManifest([i \in 1..Len(d) |->
                [name |-> serialize(d[i]).name, durata |-> serialize(d[i]).durata]])]

\* Playlist.populate_playlist
populate_playlist(pp, d, f) ==
    IF f.manifest.kind # "absent" THEN load_playlist(pp, d, f)
    ELSE LET scanned == ScanDir(pp, f)
         IN [exc |-> "none", data |-> scanned, fs |-> save(pp, scanned, f)]

\* the directory after mkdir and the two copies of load()
Bootstrapped == [dir |-> TRUE, files |-> {s_empty_playlist_png}, manifest |-> DefaultManifest]

\* the except clause of load(): FileNotFoundError becomes WrongPlaylistFolderPath
MkdirRaised(e, d, f) ==
    [exc |-> IF e = "FileNotFoundError" THEN "WrongPlaylistFolderPath" ELSE e,
     data |-> d, fs |-> f]

\* load() that goes on to the directory "." when playlist_path is None
load_NoMissingCheck(pp, d, f) ==
    IF ~pp.bound THEN [exc |-> "none", data |-> <<>>, fs |-> f]
    ELSE IF ~IsDir(pp.str, f) /\ Mkdir(pp.str) # "none"
        THEN MkdirRaised(Mkdir(pp.str), d, f)
    ELSE IF ~IsDir(pp.str, f) THEN populate_playlist(pp, d, Bootstrapped)
    ELSE populate_playlist(pp, d, f)

\* load() without the creation of a missing directory
load_NoCreate(pp, d, f) ==
    IF ~pp.bound THEN [exc |-> "MissingPlaylistFolder", data |-> d, fs |-> f]
    ELSE IF ~IsDir(pp.str, f) /\ Mkdir(pp.str) # "none"
        THEN MkdirRaised(Mkdir(pp.str), d, f)
    ELSE populate_playlist(pp, d, f)

\* Playlist.load
load(pp, d, f) ==
    IF ~pp.bound THEN [exc |-> "MissingPlaylistFolder", data |-> d, fs |-> f]
    ELSE IF ~IsDir(pp.str, f) /\ Mkdir(pp.str) # "none"
        THEN MkdirRaised(Mkdir(pp.str), d, f)
    ELSE IF ~IsDir(pp.str, f) THEN populate_playlist(pp, d, Bootstrapped)
    ELSE populate_playlist(pp, d, f)

----------------------------------------------------------------------------
(* The modelled world *)

\* playlist_path is None
Unbound == [bound |-> FALSE, str |-> <<>>]
BoundTo(s) == [bound |-> TRUE, str |-> s]

\* the two spellings of the playlist directory, and a path that cannot be made
PathArgs == {s_dir_rel, s_dir_abs, s_dir_blocked}

\* the files that come and go in the directory; the default image is only removed
FileNames == {s_a_png, s_b_jpg, s_c_jpgm, s_empty_playlist_png}

\* the items of the manifests that are written from outside
ManifestItems ==
    {[name |-> s_a_png, durata |-> NoDurata],
     [name |-> s_b_jpg, durata |-> NumDurata(5)],
     [name |-> s_stream, durata |-> NoDurata]}

\* the manifests written from outside list an item once
Manifests ==
    {ListManifest(s) :
        s \in {q \in UNION {[1..n -> ManifestItems] : n \in 0..MaxManifest} :
                    \A i, j \in 1..Len(q) : q[i] = q[j] => i = j}}

\* the manifests written from outside that are no list of strings and mappings
\* with a name
Malformed ==
    {SyntaxManifest, EmptyManifest, ScalarManifest,
     MappingManifest(<<[name |-> s_a_png, durata |-> NoDurata]>>),
     ListManifest(<<BadItem("noname")>>),
     ListManifest(<<BadItem("int")>>),
     ListManifest(<<[name |-> s_stream, durata |-> NoDurata], BadItem("tagged"),
                    [name |-> s_a_png, durata |-> NoDurata]>>)}

NoDir == [dir |-> FALSE, files |-> {}, manifest |-> NoManifest]

Disks ==
    {NoDir} \cup
    {[dir |-> TRUE, files |-> fl, manifest |-> m] :
        fl \in SUBSET (FileNames \ {s_empty_playlist_png}),
        m \in {NoManifest} \cup Manifests \cup Malformed}

\* a call's outcome: the exception raised ("none": it returned), the value returned,
\* whether load() created the directory, and whether reload() moved the position back
PyNone == [py |-> "None"]
PyBool(b) == [py |-> "bool", b |-> b]
PyElement(e) == [py |-> "PlaylistElement", elem |-> e]
Outcome(op, exc, val, created, rewound) ==
    [op |-> op, exc |-> exc, val |-> val, created |-> created, rewound |-> rewound]

\* load() finds the directory without a manifest and scans it
Scans(pp, f) == pp.bound /\ IsDir(pp.str, f) /\ f.manifest.kind = "absent"

\* load() finds no directory and creates it
Creates(pp, f) == pp.bound /\ ~IsDir(pp.str, f) /\ Mkdir(pp.str) = "none"

\* the paths given to classifica on its own: a beginning, a middle and an end.
\* No beginning but "http" makes a path that starts with "http", and no end but
\* "png", "jpg", "jpeg", "mp4" makes one that ends in one of these.
ClPrefixes == {<<>>, s_http, <<"H","t","t","p">>, <<"h","t","p">>}
ClMiddles == {<<>>, <<"a",".">>, <<":","/","/","s","/","x",".">>}
ClSuffixes ==
    {<<>>, s_png, s_jpg, s_jpeg, s_mp4, <<"J","P","G">>, <<"P","n","g">>,
     <<"t","x","t">>, <<"p","n">>, <<"m","p","4","a">>}

\* no call of classifica on its own
NoCall ==
    [pre |-> <<>>, mid |-> <<>>, suf |-> <<>>, path |-> <<>>, tipo |-> "unset", done |-> FALSE]

----------------------------------------------------------------------------
(* Operations *)

\* PlaylistPlayer(playlist_path): Playlist.__init__, idx = -1
Init ==
    \E f0 \in Disks, pp \in {Unbound} \cup {BoundTo(s) : s \in PathArgs} :
        \E r \in {IF pp.bound THEN load(pp, <<>>, f0)
                  ELSE [exc |-> "none", data |-> <<>>, fs |-> f0]} :
           /\ r.exc = "none"
           /\ playlist_path = pp
           /\ data = r.data
           /\ fs = r.fs
           /\ idx = -1
           /\ edits = 0
           /\ trip = IF Scans(pp, f0) THEN 1 ELSE 0
           /\ ret = Outcome("init", "none", PyNone, Creates(pp, f0), FALSE)
           /\ cl = NoCall

\* Playlist.load called on the player
Load ==
    \E r \in {load(playlist_path, data, fs)} :
       /\ data' = r.data
       /\ fs' = r.fs
       /\ ret' = Outcome("load", r.exc, PyNone, Creates(playlist_path, fs), FALSE)
       /\ edits' = IF r.exc = "none" THEN 0 ELSE edits
       /\ trip' = IF Scans(playlist_path, fs) THEN 1 ELSE 0
       /\ UNCHANGED <<playlist_path, idx, cl>>

\* Playlist.on_change: load() under another name
OnChange ==
    \E r \in {load(playlist_path, data, fs)} :
       /\ data' = r.data
       /\ fs' = r.fs
       /\ ret' = Outcome("load", r.exc, PyNone, Creates(playlist_path, fs), FALSE)
       /\ edits' = IF r.exc = "none" THEN 0 ELSE edits
       /\ trip' = IF Scans(playlist_path, fs) THEN 1 ELSE 0
       /\ UNCHANGED <<playlist_path, idx, cl>>

\* reload() that leaves the position where it is
Reload_NoReset(arg) ==
    \E pp \in {IF arg.bound THEN arg ELSE playlist_path} :
    \E r \in {load(pp, data, fs)} :
       /\ idx' = idx
       /\ playlist_path' = pp
       /\ data' = r.data
       /\ fs' = r.fs
       /\ ret' = Outcome("reload", r.exc, PyNone, Creates(pp, fs), idx # -1)
       /\ edits' = IF r.exc = "none" THEN 0 ELSE edits
       /\ trip' = IF Scans(pp, fs) THEN 1 ELSE 0
       /\ UNCHANGED cl

\* PlaylistPlayer.reload, through Playlist.reload; arg unbound: no playlist_path given
Reload(arg) ==
    \E pp \in {IF arg.bound THEN arg ELSE playlist_path} :
    \E r \in {load(pp, data, fs)} :
       /\ idx' = -1
       /\ playlist_path' = pp
       /\ data' = r.data
       /\ fs' = r.fs
       /\ ret' = Outcome("reload", r.exc, PyNone, Creates(pp, fs), idx # -1)
       /\ edits' = IF r.exc = "none" THEN 0 ELSE edits
       /\ trip' = IF Scans(pp, fs) THEN 1 ELSE 0
       /\ UNCHANGED cl

\* next() without the test for an empty playlist
NextElement_NoEmptyCheck ==
    /\ idx' = IF idx < Len(data) THEN idx + 1 ELSE 0
    /\ ret' = IF idx' < Len(data)
                THEN Outcome("next", "none", PyElement(data[idx' + 1]), FALSE, FALSE)
                ELSE Outcome("next", "IndexError", PyNone, FALSE, FALSE)
    /\ trip' = 0
    /\ UNCHANGED <<playlist_path, data, fs, edits, cl>>

\* PlaylistPlayer.next
NextElement ==
    /\ IF Len(data) = 0
        THEN /\ idx' = idx
             /\ ret' = Outcome("next", "none", PyNone, FALSE, FALSE)
        ELSE /\ idx' = IF idx < Len(data) THEN idx + 1 ELSE 0
             /\ ret' = IF idx' < Len(data)
                        THEN Outcome("next", "none", PyElement(data[idx' + 1]), FALSE, FALSE)
                        ELSE Outcome("next", "IndexError", PyNone, FALSE, FALSE)
    /\ trip' = 0
    /\ UNCHANGED <<playlist_path, data, fs, edits, cl>>

\* Playlist.save called on the player
Save ==
    /\ fs' = save(playlist_path, data, fs)
    /\ ret' = Outcome("save", "none", PyNone, FALSE, FALSE)
    /\ trip' = IF trip = 1 /\ edits = 0 THEN 2 ELSE 0
    /\ UNCHANGED <<playlist_path, data, idx, edits, cl>>

\* the directory changes under the player
Edited ==
    /\ edits < MaxEdits
    /\ edits' = edits + 1
    /\ ret' = Outcome("env", "none", PyNone, FALSE, FALSE)
    /\ trip' = 0
    /\ UNCHANGED <<playlist_path, data, idx, cl>>

EnvAddFile(n) ==
    /\ fs.dir /\ n \notin fs.files /\ n # s_empty_playlist_png
    /\ fs' = [fs EXCEPT !.files = @ \cup {n}]
    /\ Edited

EnvRemoveFile(n) ==
    /\ fs.dir /\ n \in fs.files
    /\ fs' = [fs EXCEPT !.files = @ \ {n}]
    /\ Edited

\* the manifest is written from outside
EnvWriteManifest(m) ==
    /\ fs.dir /\ fs.manifest # m
    /\ fs' = [fs EXCEPT !.manifest = m]
    /\ Edited

EnvRemoveManifest ==
    /\ fs.dir /\ fs.manifest.kind # "absent"
    /\ fs' = [fs EXCEPT !.manifest = NoManifest]
    /\ Edited

EnvRemoveDir ==
    /\ fs.dir
    /\ fs' = NoDir
    /\ Edited

Next ==
    \/ Load
    \/ OnChange
    \/ \E arg \in {Unbound} \cup {BoundTo(s) : s \in PathArgs} : Reload(arg)
    \/ NextElement
    \/ Save
    \/ \E n \in FileNames : EnvAddFile(n)
    \/ \E n \in FileNames : EnvRemoveFile(n)
    \/ \E m \in Manifests \cup Malformed : EnvWriteManifest(m)
    \/ EnvRemoveManifest
    \/ EnvRemoveDir

Spec == Init /\ [][Next]_vars

----------------------------------------------------------------------------
(* classifica on its own: a static method, called on one path *)

InitClassifica ==
    /\ \E pre \in ClPrefixes, mid \in ClMiddles, suf \in ClSuffixes :
            cl = [pre |-> pre, mid |-> mid, suf |-> suf, path |-> pre \o mid \o suf,
                  tipo |-> "unset", done |-> FALSE]
    /\ playlist_path = Unbound
    /\ data = <<>>
    /\ fs = NoDir
    /\ idx = -1
    /\ edits = 0
    /\ trip = 0
    /\ ret = Outcome("init", "none", PyNone, FALSE, FALSE)

\* PlaylistElement.classifica(path)
Classify ==
    /\ ~cl.done
    /\ cl' = [cl EXCEPT !.tipo = classifica(cl.path), !.done = TRUE]
    /\ UNCHANGED <<playlist_path, data, idx, fs, ret, edits, trip>>

NextClassifica == Classify

SpecClassifica == InitClassifica /\ [][NextClassifica]_vars

----------------------------------------------------------------------------
(* Properties *)

\* the step is a call of load(), directly, as on_change() or through reload()
LoadStep == ret'.op \in {"load", "reload"}

\* the name ends in one of the media extensions
HasMediaSuffix(n) ==
    EndsWith(n, s_png) \/ EndsWith(n, s_jpg) \/ EndsWith(n, s_jpeg) \/ EndsWith(n, s_mp4)

\* the location of file n of the playlist directory
Anchored(n) == s_dir_abs \o <<"/">> \o n

\* C1: counted from a position of -1, the k-th consecutive next() on a playlist of
\* n >= 1 elements returns the element at index (k-1) mod n and does not raise: the
\* first returns index 0, and each one after a next() that returned index i returns
\* index (i+1) mod n.
C1_Wraparound ==
    [][(/\ ret'.op = "next"
        /\ Len(data) >= 1
        /\ \/ idx = -1
           \/ ret.op = "next" /\ ret.exc = "none" /\ idx \in 0..(Len(data) - 1))
       => /\ ret'.exc = "none"
          /\ idx' = (idx + 1) % Len(data)
          /\ ret'.val = PyElement(data[idx' + 1])]_vars

\* C2: right after a next() on a non-empty playlist, 0 <= idx < len(data).
C2_PositionValid ==
    (ret.op = "next" /\ Len(data) > 0) => (0 <= idx /\ idx < Len(data))

\* C3: after reload(), with or without a new directory and whatever the position
\* was, the position is -1; and from position -1 a next() on a non-empty playlist
\* returns the element at index 0.
C3_ReloadResets ==
    [][/\ ret'.op = "reload" => idx' = -1
       /\ (idx = -1 /\ ret'.op = "next" /\ Len(data) > 0)
            => (ret'.exc = "none" /\ idx' = 0 /\ ret'.val = PyElement(data[1]))]_vars

C3_Witness ==
    /\ ret.op = "reload" /\ ret.exc = "none" /\ ret.rewound
    /\ idx = -1 /\ Len(data) > 0

\* the two sequences have the same length and equal elements (location, duration)
SameSequence(d1, d2) ==
    Len(d1) = Len(d2) /\ \A i \in 1..Len(d1) : ElementEq(d1[i], d2[i])

\* C4: reload() returns a boolean: false when the sequence it loaded equals the one
\* held before, true otherwise.
C4_ReloadReportsChange ==
    [][(ret'.op = "reload" /\ ret'.exc = "none")
        => ret'.val = PyBool(~SameSequence(data, data'))]_vars

\* the manifest is a list of strings and of mappings with a name
WellFormed(m) == m.kind = "list" /\ \A i \in 1..Len(m.items) : ~IsBad(m.items[i])

\* the step is a call of load() that finds the directory and a manifest in it
LoadsManifest ==
    /\ LoadStep /\ playlist_path'.bound
    /\ IsDir(playlist_path'.str, fs) /\ fs.manifest.kind # "absent"

\* a manifest item is valid as the claim has it
C5_ItemValid(it, f) ==
    \/ StartsWith(it.name, s_http)
    \/ HasMediaSuffix(it.name) /\ it.name \in f.files

\* the element is the manifest item
C5_IsItem(e, it) ==
    /\ e.durata = it.durata
    /\ IF StartsWith(it.name, s_http) THEN e.path = it.name
       ELSE e.path = Anchored(it.name)

\* C5: a load() that finds a well-formed manifest in the bound directory returns
\* and leaves exactly the items valid at that time, in manifest order: the streams,
\* and the items of a media kind that name a file of the directory.
C5_ManifestFilter ==
    [][(LoadsManifest /\ WellFormed(fs.manifest))
        => LET kept == SelectSeq(fs.manifest.items, LAMBDA it : C5_ItemValid(it, fs))
           IN /\ ret'.exc = "none"
              /\ Len(data') = Len(kept)
              /\ \A i \in 1..Len(kept) : C5_IsItem(data'[i], kept[i])]_vars

\* a load() has kept a stream and a file with its duration and dropped a missing file
C5_Witness ==
    /\ ret.op = "load" /\ ret.exc = "none" /\ edits = 0 /\ ~ret.created
    /\ fs.manifest.kind = "list" /\ Len(fs.manifest.items) = 3
    /\ fs.manifest.items[1].name = s_a_png /\ s_a_png \notin fs.files
    /\ Len(data) = 2
    /\ data[1].tipo = "IMMAGINE" /\ data[1].path = Anchored(s_b_jpg)
    /\ data[1].durata = NumDurata(5)
    /\ data[2].tipo = "STREAM" /\ data[2].path = s_stream

\* C6: after a successful load(), reload() or on_change() no element has kind None.
C6_NoUnrecognized ==
    (ret.op \in {"init", "load", "reload"} /\ ret.exc = "none")
        => \A i \in 1..Len(data) : data[i].tipo # "None"

\* C7: a load() of an existing directory without manifest yields one element per
\* file whose name ends in png, jpg, jpeg or mp4, in ascending order of name, each
\* without duration, and no other element.
C7_ScanResult ==
    [][(LoadStep /\ Scans(playlist_path', fs))
        => LET names == Sorted({n \in fs.files : HasMediaSuffix(n)})
           IN /\ ret'.exc = "none"
              /\ Len(data') = Len(names)
              /\ \A i \in 1..Len(names) :
                    /\ PathName(data'[i].path) = names[i]
                    /\ data'[i].durata = NoDurata]_vars

\* C8: load(), save(), load() on an existing directory without manifest, with no
\* change from outside: the second load() returns and yields the sequence of the
\* first, all without duration; for the files a.png and b.jpg it is a.png, b.jpg.
C8_RoundTrip ==
    [][(trip = 2 /\ edits = 0 /\ ret'.op = "load")
        => /\ ret'.exc = "none"
           /\ data' = data
           /\ \A i \in 1..Len(data') : data'[i].durata = NoDurata
           /\ fs.files = {s_a_png, s_b_jpg}
                => /\ Len(data') = 2
                   /\ PathName(data'[1].path) = s_a_png
                   /\ PathName(data'[2].path) = s_b_jpg]_vars

\* the element of the default image
DefaultElement ==
    [tipo |-> "IMMAGINE", isPath |-> TRUE,
     path |-> Anchored(s_empty_playlist_png), durata |-> NoDurata]

\* C9: a player constructed on a directory that does not exist has created it, with
\* the default manifest and the default image in it, and holds the default image as
\* its only element; a load() that follows returns and holds the same element.
C9_Bootstrap ==
    /\ []((ret.op = "init" /\ ret.created)
            => /\ fs.dir
               /\ fs.manifest = DefaultManifest
               /\ s_empty_playlist_png \in fs.files
               /\ data = <<DefaultElement>>)
    /\ [][(ret.op = "init" /\ ret.created /\ ret'.op = "load")
            => (ret'.exc = "none" /\ data' = <<DefaultElement>>)]_vars

C9_Witness ==
    /\ ret.op = "init" /\ ret.created /\ playlist_path.bound
    /\ fs = Bootstrapped /\ data = <<DefaultElement>>

\* C10: a next() on a playlist without elements returns None and does not raise,
\* also on a player that has no directory.
C10_EmptyNext ==
    (ret.op = "next" /\ Len(data) = 0) => (ret.exc = "none" /\ ret.val = PyNone)

C10_Witness ==
    ret.op = "next" /\ Len(data) = 0 /\ ~playlist_path.bound /\ idx = -1

\* C11: load(), on_change() and reload() without argument on a player that has
\* no directory raise MissingPlaylistFolder and leave data and the disk as they were.
C11_MissingFolder ==
    [][(LoadStep /\ ~playlist_path'.bound)
        => (ret'.exc = "MissingPlaylistFolder" /\ data' = data /\ fs' = fs)]_vars

C11_Witness ==
    /\ ret.op = "reload" /\ ret.exc = "MissingPlaylistFolder"
    /\ ~playlist_path.bound /\ data = <<>> /\ fs.dir /\ fs.files # {}

\* C12: a load() that finds no directory at playlist_path and cannot make it
\* raises WrongPlaylistFolderPath, whatever keeps the directory from being made.
C12_WrongFolderPath ==
    [][(/\ LoadStep /\ playlist_path'.bound
        /\ ~IsDir(playlist_path'.str, fs) /\ Mkdir(playlist_path'.str) # "none")
        => ret'.exc = "WrongPlaylistFolderPath"]_vars

\* C13: a load() that finds a manifest that is no well-formed list (rejected by the
\* parser, empty, a scalar, a mapping, with an item that is no string and no mapping
\* with a name) returns to the caller without an exception.
C13_MalformedNoCrash ==
    [][(LoadsManifest /\ ~WellFormed(fs.manifest)) => ret'.exc = "none"]_vars

\* the node carries an unknown tag
IsTagged(item) == IsBad(item) /\ item.bad = "tagged"

\* the items of the manifest that carry no unknown tag
Untagged(items) == SelectSeq(items, LAMBDA item : ~IsTagged(item))

\* C14: a load() of a manifest in which items carry an unknown tag, the others being
\* strings and mappings with a name, does not raise and yields the valid ones of
\* the other items in manifest order.
C14_UnknownTags ==
    [][(/\ LoadsManifest /\ fs.manifest.kind = "list"
        /\ \E i \in 1..Len(fs.manifest.items) : IsTagged(fs.manifest.items[i])
        /\ \A i \in 1..Len(fs.manifest.items) :
                IsBad(fs.manifest.items[i]) => IsTagged(fs.manifest.items[i]))
        => (/\ ret'.exc = "none"
            /\ data' = FilterValid(Untagged(fs.manifest.items), playlist_path'.str, fs))]_vars

\* C15: a save() that cannot write the manifest (no directory bound, no directory
\* on the disk, an element that does not serialize) raises to its caller, and data
\* is as before.
C15_SaveFailureSurfaced ==
    [][(ret'.op = "save" /\ SaveRaises(playlist_path, data, fs) # "none")
        => (ret'.exc # "none" /\ data' = data)]_vars

\* C16: serialize() of a stream element, with or without duration, does not raise
\* and gives the URL as the name of the entry.
C16_StreamSerialization ==
    \A i \in 1..Len(data) :
        data[i].tipo = "STREAM"
            => (serialize(data[i]).exc = "none" /\ serialize(data[i]).name = data[i].path)

\* C18: the location of every element that is no stream is the absolute path of the
\* file of that name in the playlist directory, however the directory was spelled.
C18_LocationAnchored ==
    \A i \in 1..Len(data) :
        data[i].tipo # "STREAM" => data[i].path = Anchored(PathName(data[i].path))

\* C19 as stated: a load() that finds a manifest the parser rejects yields the scan
\* of the directory, and no empty sequence while the directory holds media files.
C19_ParseFailureFallback ==
    [][(LoadsManifest /\ fs.manifest.kind = "syntax")
        => (/\ data' = ScanDir(playlist_path', fs)
            /\ (\E n \in fs.files : HasMediaSuffix(n)) => data' # <<>>)]_vars

\* C19: a load() that finds a manifest the parser rejects returns with an empty
\* sequence; the directory is not scanned and nothing on the disk changes.
C19_ParseFailureEmpty ==
    [][(LoadsManifest /\ fs.manifest.kind = "syntax")
        => (ret'.exc = "none" /\ data' = <<>> /\ fs' = fs)]_vars

\* a load() has returned empty-handed from a directory that holds a rejected
\* manifest, a file the scan would list and a media file
C19_Witness ==
    /\ ret.op = "load" /\ ret.exc = "none" /\ edits = 0
    /\ playlist_path.bound /\ IsDir(playlist_path.str, fs)
    /\ fs.manifest.kind = "syntax" /\ {s_c_jpgm, s_a_png} \subseteq fs.files
    /\ data = <<>>

\* C20: a save() that starts on a directory with a well-formed manifest leaves a
\* well-formed manifest there, also when it fails on the way.
C20_SaveKeepsManifest ==
    [][(ret'.op = "save" /\ WellFormed(fs.manifest)) => WellFormed(fs'.manifest)]_vars

\* the kind the rules give a path made of the beginning pre and the end suf: the
\* first rule that matches decides
C17_Kind(pre, suf) ==
    IF pre = s_http THEN "STREAM"
    ELSE IF suf \in {s_png, s_jpg, s_jpeg} THEN "IMMAGINE"
    ELSE IF suf = s_mp4 THEN "VIDEO"
    ELSE "None"

\* C17: classifica gives a path that begins with "http" STREAM, whatever its end;
\* else one that ends in "png", "jpg" or "jpeg" IMMAGINE; else one that ends in
\* "mp4" VIDEO; else None; letters of the other case do not match, so "a.JPG" and
\* "a.txt" get None.
C17_Classification ==
    cl.done =>
        /\ cl.tipo = C17_Kind(cl.pre, cl.suf)
        /\ cl.path \in {<<"a",".","J","P","G">>, <<"a",".","t","x","t">>} => cl.tipo = "None"

\* classifica was called on a URL that ends in a media extension
C17_Witness ==
    /\ cl.done /\ cl.tipo = "STREAM"
    /\ cl.path = <<"h","t","t","p",":","/","/","s","/","x",".","p","n","g">>

====
